---- MODULE Spec2Model ----
(***************************************************************************)
(* Trend-log retrieval and normalisation of the thermostat dashboards.     *)
(*                                                                         *)
(*   Dashboard_SacStucco_20250711.py   /api/trends  and interpolate_gaps   *)
(*   Dashboard_20250707_HiddenPW.py    /api/trend                          *)
(*                                                                         *)
(* Units.  A datetime is a record [wall, off, cs]: the wall-clock reading  *)
(* in whole minutes, the UTC offset it carries in minutes, and what the    *)
(* reading has beyond the minute, in hundredths of a second.  Its instant  *)
(* is wall - off minutes and cs hundredths.  A temperature is an integer   *)
(* number of thousandths of a degree, so that a value rounded to 2         *)
(* decimals is a multiple of 10; the float it stands for is the double     *)
(* nearest to it.                                                          *)
(***************************************************************************)
EXTENDS Integers, Sequences, FiniteSets, TLC

VARIABLES
    in_rows,      \* interpolate_gaps: the rows argument
    in_range,     \* interpolate_gaps: the time_range argument
    out_rows,     \* interpolate_gaps: the returned list
    ipc,          \* "input" before the call, "done" after it, "again"
                  \* after a call on what it returned
    endpoint,     \* the route of the request being served, "none" before it
    pc,           \* where the handler stands: "idle", a pending GET, "done"
    range_arg,    \* the range query argument of the request ("absent": none)
    now,          \* the clock reading the handler took
    upstream,     \* the gateway's log buffer: how many pages it serves
    calls,        \* the GETs issued to the gateway so far, in order
    replies,      \* the gateway's answers to them, in order
    response,     \* what the handler returned to its caller
    reqs,         \* two /api/trends requests served at once: the locals of each
    currentTimeRange,  \* dashboard page: the script's variable of that name
    activeBtn,    \* dashboard page: the range button of class 'active'
    chartStatus,  \* dashboard page: the class of the chartStatus element
    chart,        \* dashboard page: the data of the Chart object
    pending,      \* dashboard page: the fetches of /api/trends in flight
    reading,      \* dashboard page: the calls waiting for response.json()
    loads         \* dashboard page: how many times loadTrendData was called

ivars == <<in_rows, in_range, out_rows, ipc>>
hvars == <<endpoint, pc, range_arg, now, upstream, calls, replies, response>>
rvars == <<reqs>>
jvars == <<currentTimeRange, activeBtn, chartStatus, chart, pending, reading,
           loads>>
vars == <<in_rows, in_range, out_rows, ipc,
          endpoint, pc, range_arg, now, upstream, calls, replies, response,
          reqs, currentTimeRange, activeBtn, chartStatus, chart, pending,
          reading, loads>>

----------------------------------------------------------------------------
(* Program constants *)

ExpectedIntervalMinutes == 5
MaxGapSamples == 48

(* Bounds of the model *)

MaxLen == 3

----------------------------------------------------------------------------
(* Python floats.  A float is an IEEE 754 double: a record [neg, m, e] that
   stands for (-1)^neg * m * 2^e with m < 2^53 (m = 0: zero).  The mantissa
   is held as a sequence of 14-bit limbs, the least significant first, since
   it does not fit the integers of the checker.  Every operation gives the
   exact result rounded to 53 bits, ties to even, as the hardware does.
   Subnormals, infinities and NaN are left out: no temperature reaches them. *)

Limb == 2^14

Abs(n) == IF n < 0 THEN -n ELSE n

RECURSIVE BTrim(_)
\* without its leading zero limbs
BTrim(a) ==
    IF a = <<>> THEN <<>>
    ELSE IF a[Len(a)] = 0 THEN BTrim(SubSeq(a, 1, Len(a) - 1))
    ELSE a

RECURSIVE BOfInt(_)
BOfInt(n) == IF n = 0 THEN <<>> ELSE <<n % Limb>> \o BOfInt(n \div Limb)

RECURSIVE BToInt(_)
BToInt(a) == IF a = <<>> THEN 0 ELSE Head(a) + Limb * BToInt(Tail(a))

BLimb(a, i) == IF i <= Len(a) THEN a[i] ELSE 0

RECURSIVE BAddFrom(_, _, _, _)
BAddFrom(a, b, i, carry) ==
    IF i > Len(a) /\ i > Len(b)
    THEN IF carry = 0 THEN <<>> ELSE <<carry>>
    ELSE LET sum == BLimb(a, i) + BLimb(b, i) + carry
         IN  <<sum % Limb>> \o BAddFrom(a, b, i + 1, sum \div Limb)

BAdd(a, b) == BAddFrom(a, b, 1, 0)

RECURSIVE BSubFrom(_, _, _, _)
BSubFrom(a, b, i, borrow) ==
    IF i > Len(a) THEN <<>>
    ELSE LET diff == a[i] - BLimb(b, i) - borrow
         IN  IF diff < 0
             THEN <<diff + Limb>> \o BSubFrom(a, b, i + 1, 1)
             ELSE <<diff>> \o BSubFrom(a, b, i + 1, 0)

\* a - b, for a >= b
BSub(a, b) == BTrim(BSubFrom(a, b, 1, 0))

RECURSIVE BLessFrom(_, _, _)
BLessFrom(a, b, i) ==
    IF i = 0 THEN FALSE
    ELSE IF a[i] # b[i] THEN a[i] < b[i]
    ELSE BLessFrom(a, b, i - 1)

\* a < b
BLess(a, b) ==
    IF Len(a) # Len(b) THEN Len(a) < Len(b) ELSE BLessFrom(a, b, Len(a))

RECURSIVE BMulSmallFrom(_, _, _, _)
BMulSmallFrom(a, k, i, carry) ==
    IF i > Len(a) THEN BOfInt(carry)
    ELSE LET prod == a[i] * k + carry
         IN  <<prod % Limb>> \o BMulSmallFrom(a, k, i + 1, prod \div Limb)

\* a * k, for 0 <= k <= Limb
BMulSmall(a, k) == IF k = 0 THEN <<>> ELSE BMulSmallFrom(a, k, 1, 0)

RECURSIVE BMul(_, _)
BMul(a, b) ==
    IF b = <<>> THEN <<>>
    ELSE LET rest == BMul(a, Tail(b))
         IN  BAdd(BMulSmall(a, Head(b)),
                  IF rest = <<>> THEN <<>> ELSE <<0>> \o rest)

RECURSIVE BDivSmall(_, _)
\* quotient (untrimmed) and remainder of a by d, for 0 < d < 2^17
BDivSmall(a, d) ==
    IF a = <<>> THEN [q |-> <<>>, r |-> 0]
    ELSE LET high == BDivSmall(Tail(a), d)
             cur == high.r * Limb + Head(a)
         IN  [q |-> <<cur \div d>> \o high.q, r |-> cur % d]

\* a * 2^n
BShl(a, n) ==
    IF a = <<>> THEN <<>>
    ELSE [i \in 1..(n \div 14) |-> 0]
           \o (IF n % 14 = 0 THEN a ELSE BMulSmall(a, 2^(n % 14)))

\* a \div 2^n
BShr(a, n) ==
    IF n \div 14 >= Len(a) THEN <<>>
    ELSE IF n % 14 = 0 THEN SubSeq(a, n \div 14 + 1, Len(a))
    ELSE BTrim(BDivSmall(SubSeq(a, n \div 14 + 1, Len(a)), 2^(n % 14)).q)

\* bit number n of a, the lowest being bit 0
BBit(a, n) == (BLimb(a, n \div 14 + 1) \div 2^(n % 14)) % 2

\* whether a has a bit set below bit number n
BLowBits(a, n) ==
    \/ \E i \in 1..(n \div 14) : BLimb(a, i) # 0
    \/ BLimb(a, n \div 14 + 1) % 2^(n % 14) # 0

RECURSIVE IntBits(_)
IntBits(n) == IF n = 0 THEN 0 ELSE 1 + IntBits(n \div 2)

\* the number of bits of a (trimmed)
BBits(a) == IF a = <<>> THEN 0 ELSE 14 * (Len(a) - 1) + IntBits(a[Len(a)])

FZero == [neg |-> FALSE, m |-> <<>>, e |-> 0]

RECURSIVE FPack(_, _, _)
\* the record of (-1)^neg * m * 2^e that has no zero limb at the low end of
\* its mantissa: one value, one record
FPack(neg, m, e) ==
    IF m = <<>> THEN FZero
    ELSE IF Head(m) = 0 THEN FPack(neg, Tail(m), e + 14)
    ELSE [neg |-> neg, m |-> m, e |-> e]

\* (-1)^neg * n * 2^e, n having a bit set below its lowest one when sticky,
\* rounded to a double
FRound(neg, n, e, sticky) ==
    LET cut == BBits(n) - 53
    IN  IF cut <= 0 THEN FPack(neg, n, e)
        ELSE
         LET kept == BShr(n, cut)
             up == /\ BBit(n, cut - 1) = 1
                   /\ \/ sticky
                      \/ BLowBits(n, cut - 1)
                      \/ BBit(kept, 0) = 1
         IN  FPack(neg, IF up THEN BAdd(kept, <<1>>) ELSE kept, e + cut)

\* the double nearest to num / den (den > 0): float() of a decimal numeral,
\* and int / int
FRatio(num, den) ==
    IF num = 0 THEN FZero
    ELSE LET d == BDivSmall(BShl(BOfInt(Abs(num)), 84), den)
         IN  FRound(num < 0, BTrim(d.q), -84, d.r # 0)

FNeg(x) == [x EXCEPT !.neg = ~x.neg]

\* x + y
FAdd(x, y) ==
    IF x.m = <<>> THEN y
    ELSE IF y.m = <<>> THEN x
    ELSE LET low == IF x.e < y.e THEN x.e ELSE y.e
             xm == BShl(x.m, x.e - low)
             ym == BShl(y.m, y.e - low)
         IN  IF x.neg = y.neg THEN FRound(x.neg, BAdd(xm, ym), low, FALSE)
             ELSE IF xm = ym THEN FZero
             ELSE IF BLess(xm, ym) THEN FRound(y.neg, BSub(ym, xm), low, FALSE)
             ELSE FRound(x.neg, BSub(xm, ym), low, FALSE)

\* x - y
FSub(x, y) == FAdd(x, FNeg(y))

\* x * y
FMul(x, y) ==
    IF x.m = <<>> \/ y.m = <<>> THEN FZero
    ELSE FRound(x.neg # y.neg, BMul(x.m, y.m), x.e + y.e, FALSE)

\* round(x, 2), counted in hundredths: the decimal with 2 places nearest to
\* the exact value of the double, ties to the even one
Round2(x) ==
    LET n == BMulSmall(x.m, 100)
        whole == IF x.e >= 0 THEN BShl(n, x.e) ELSE BShr(n, -x.e)
        up == /\ x.e < 0
              /\ BBit(n, -x.e - 1) = 1
              /\ \/ BLowBits(n, -x.e - 1)
                 \/ BBit(whole, 0) = 1
        mag == BToInt(whole) + (IF up THEN 1 ELSE 0)
    IN  IF x.neg THEN -mag ELSE mag

\* the float a temperature of the model stands for: float() of the numeral
\* with 3 decimals
Float(thousandths) == FRatio(thousandths, 1000)

----------------------------------------------------------------------------
(* datetime *)

\* the minute of the time line an aware datetime falls in
Instant(dt) == dt.wall - dt.off

\* the place of an aware datetime on the time line, in hundredths of a
\* second: what comparisons and differences of datetimes go by
Centis(dt) == 6000 * (dt.wall - dt.off) + dt.cs

\* timedelta(minutes = m), in hundredths of a second
Minutes(m) == 6000 * m

\* dt + timedelta(minutes = m): the tzinfo and the fraction are kept
PlusMinutes(dt, m) == [wall |-> dt.wall + m, off |-> dt.off, cs |-> dt.cs]

\* dt.isoformat() of an aware datetime: a string with a numeric offset, and
\* with fractional seconds when the microseconds are not 0
IsoFormat(dt) ==
    [fmt |-> IF dt.cs = 0 THEN "offset" ELSE "fracoffset",
     wall |-> dt.wall, off |-> dt.off, cs |-> dt.cs]

\* strftime of the display label, by range
FormatTime(dt, time_range) ==
    IF time_range \in {"1h", "4h"}
        THEN [style |-> "%H:%M", at |-> dt.wall % 1440]
    ELSE IF time_range \in {"12h", "24h"}
        THEN [style |-> "%m/%d %H:%M", at |-> dt.wall]
    ELSE [style |-> "%m/%d", at |-> dt.wall \div 1440]

----------------------------------------------------------------------------
(* interpolate_gaps *)

\* a variant that counts intervals of twice the expected length
NumIntervalsHalved(time_gap, expected_interval_minutes) ==
    time_gap \div Minutes(2 * expected_interval_minutes)

\* int(time_gap.total_seconds() / (expected_interval_minutes * 60))
NumIntervals(time_gap, expected_interval_minutes) ==
    time_gap \div Minutes(expected_interval_minutes)

\* a variant one interval late: current_time + expected_interval * (j + 1)
InterpTimeLate(current_time, expected_interval_minutes, j) ==
    PlusMinutes(current_time, expected_interval_minutes * (j + 1))

\* current_time + expected_interval * j
InterpTime(current_time, expected_interval_minutes, j) ==
    PlusMinutes(current_time, expected_interval_minutes * j)

\* a variant that truncates to 2 decimals instead of rounding
InterpTempTruncated(current_temp, next_temp, j, num_intervals) ==
    10 * ((current_temp * num_intervals + (next_temp - current_temp) * j)
             \div (10 * num_intervals))

\* a variant that rounds up to 2 decimals
InterpTempRoundedUp(current_temp, next_temp, j, num_intervals) ==
    10 * (-((-(current_temp * num_intervals + (next_temp - current_temp) * j))
              \div (10 * num_intervals)))

\* round(current_temp + (next_temp - current_temp) * (j / num_intervals), 2)
InterpTemp(current_temp, next_temp, j, num_intervals) ==
    LET ratio == FRatio(j, num_intervals)
        current == Float(current_temp)
        interp_temp ==
            FAdd(current, FMul(FSub(Float(next_temp), current), ratio))
    IN  10 * Round2(interp_temp)

\* a variant that labels a synthesized row with the clock time only
InterpRowClockLabel(current_row, next_row, j, num_intervals, expected_interval_minutes, time_range) ==
    LET interp_time == InterpTime(current_row.sort_time, expected_interval_minutes, j)
    IN  [timestamp      |-> IsoFormat(interp_time),
         temperature    |-> InterpTemp(current_row.temperature,
                                       next_row.temperature, j, num_intervals),
         formatted_time |-> FormatTime(interp_time, "1h"),
         sort_time      |-> interp_time,
         interpolated   |-> TRUE,
         src            |-> 0]

\* the row synthesized for step j; src = 0 is the model's mark of a row that
\* no upstream entry produced
InterpRow(current_row, next_row, j, num_intervals, expected_interval_minutes, time_range) ==
    LET interp_time == InterpTime(current_row.sort_time, expected_interval_minutes, j)
    IN  [timestamp      |-> IsoFormat(interp_time),
         temperature    |-> InterpTemp(current_row.temperature,
                                       next_row.temperature, j, num_intervals),
         formatted_time |-> FormatTime(interp_time, time_range),
         sort_time      |-> interp_time,
         interpolated   |-> TRUE,
         src            |-> 0]

\* a variant with a non-strict threshold: time_gap >= expected_interval * 2
GapReachesThreshold(time_gap, expected_interval_minutes) ==
    time_gap >= Minutes(expected_interval_minutes * 2)

\* time_gap > expected_interval * 2
GapExceedsThreshold(time_gap, expected_interval_minutes) ==
    time_gap > Minutes(expected_interval_minutes * 2)

\* num_intervals <= 48
WithinCap(num_intervals) == num_intervals <= MaxGapSamples

\* the rows appended after current_row, before next_row
GapFill(current_row, next_row, expected_interval_minutes, time_range) ==
    LET time_gap == Centis(next_row.sort_time) - Centis(current_row.sort_time)
        num_intervals == NumIntervals(time_gap, expected_interval_minutes)
    IN  IF GapExceedsThreshold(time_gap, expected_interval_minutes)
           /\ WithinCap(num_intervals)
        THEN [j \in 1..(num_intervals - 1) |->
                InterpRow(current_row, next_row, j, num_intervals,
                          expected_interval_minutes, time_range)]
        ELSE <<>>

RECURSIVE InterpolateFrom(_, _, _, _)
InterpolateFrom(rows, i, expected_interval_minutes, time_range) ==
    IF i > Len(rows) THEN <<>>
    ELSE <<rows[i]>>
         \o (IF i < Len(rows)
             THEN GapFill(rows[i], rows[i + 1], expected_interval_minutes, time_range)
             ELSE <<>>)
         \o InterpolateFrom(rows, i + 1, expected_interval_minutes, time_range)

interpolate_gaps(rows, expected_interval_minutes, time_range) ==
    IF Len(rows) < 2 THEN rows
    ELSE InterpolateFrom(rows, 1, expected_interval_minutes, time_range)

----------------------------------------------------------------------------
(* The rows interpolate_gaps is applied to: time-sorted real rows *)

Temps == {71, 80}
\* gaps of up to an hour, and gaps about the cap of 48 intervals
Gaps == {0, 5, 10, 11, 15, 60}
LongGaps == {240, 244, 245}

\* a row as get_trend_data builds it from an upstream entry (the key
\* 'interpolated' is absent on it: FALSE), entry number src
RealRow(wall, degrees, time_range, src) ==
    LET dt == [wall |-> wall, off |-> 0, cs |-> 0]
    IN  [timestamp      |-> [fmt |-> "naive", wall |-> wall, off |-> 0, cs |-> 0],
         temperature    |-> degrees * 1000,
         formatted_time |-> FormatTime(dt, time_range),
         sort_time      |-> dt,
         interpolated   |-> FALSE,
         src            |-> src]

\* s and one more real row, a gap of g minutes after its last
NextInput(s, g, d, time_range) ==
    Append(s, RealRow(s[Len(s)].sort_time.wall + g, d, time_range, Len(s) + 1))

RECURSIVE GapInputs(_, _, _)
\* every sorted sequence of n real rows, the first at minute 0, that has one
\* long gap (long) or none (~long)
GapInputs(n, time_range, long) ==
    IF n < 2
    THEN IF long THEN {}
         ELSE IF n = 0 THEN {<<>>}
         ELSE {<<RealRow(0, d, time_range, 1)>> : d \in Temps}
    ELSE {NextInput(s, g, d, time_range) :
            s \in GapInputs(n - 1, time_range, long), g \in Gaps, d \in Temps}
         \cup (IF long
               THEN {NextInput(s, g, d, time_range) :
                       s \in GapInputs(n - 1, time_range, FALSE),
                       g \in LongGaps, d \in Temps}
               ELSE {})

\* every sorted sequence of n real rows with at most one long gap
SortedInputs(n, time_range) ==
    GapInputs(n, time_range, FALSE) \cup GapInputs(n, time_range, TRUE)

\* no request is being served
HandlerIdle ==
    /\ endpoint = "none"
    /\ pc = "idle"
    /\ range_arg = "absent"
    /\ now = 0
    /\ upstream = [pages |-> 1, chained |-> FALSE]
    /\ calls = <<>>
    /\ replies = <<>>
    /\ response = [kind |-> "none"]

Clients == {1, 2}

\* a request that has not come in
IdleReq ==
    [pc |-> "idle", range_arg |-> "absent", now |-> 0, calls |-> <<>>,
     replies |-> <<>>, response |-> [kind |-> "none"], met |-> {}]

\* no second flow of requests is being served
NoClients == reqs = [c \in Clients |-> IdleReq]

\* the dashboard page as its script declares it, before window.onload:
\* currentTimeRange = '1h', the 'Last Hour' button active, chart undefined
PageOpened ==
    /\ currentTimeRange = "1h"
    /\ activeBtn = "1h"
    /\ chartStatus = "loading"
    /\ chart = [made |-> FALSE]
    /\ pending = {}
    /\ reading = {}
    /\ loads = 0

InterpInit ==
    /\ HandlerIdle
    /\ NoClients
    /\ PageOpened
    /\ in_range = "7d"
    /\ in_rows \in UNION {SortedInputs(n, "7d") : n \in 0..MaxLen}
    /\ out_rows = <<>>
    /\ ipc = "input"

Interpolate ==
    /\ ipc = "input"
    /\ out_rows' = interpolate_gaps(in_rows, ExpectedIntervalMinutes, in_range)
    /\ ipc' = "done"
    /\ UNCHANGED <<in_rows, in_range>>
    /\ UNCHANGED <<hvars, rvars, jvars>>

\* the function is applied to what it returned
InterpolateAgain ==
    /\ ipc = "done"
    /\ in_rows' = out_rows
    /\ out_rows' = interpolate_gaps(out_rows, ExpectedIntervalMinutes, in_range)
    /\ ipc' = "again"
    /\ UNCHANGED in_range
    /\ UNCHANGED <<hvars, rvars, jvars>>

InterpNext == Interpolate \/ InterpolateAgain

SpecInterp == InterpInit /\ [][InterpNext]_vars

----------------------------------------------------------------------------
(* interpolate_gaps on readings with more than 2 decimals: float(val) of the
   extraction keeps every decimal the gateway sends *)

\* 70.004, 70.007 and 71.0 degrees
FineTemps == {70004, 70007, 71000}
FineGaps == {20, 35}

\* a real row whose temperature is the given number of thousandths
FineRow(wall, thousandths, time_range, src) ==
    [RealRow(wall, 0, time_range, src) EXCEPT !.temperature = thousandths]

RECURSIVE FineInputs(_, _)
\* every sequence of n such rows, the first at minute 0
FineInputs(n, time_range) ==
    IF n = 0 THEN {<<>>}
    ELSE IF n = 1 THEN {<<FineRow(0, d, time_range, 1)>> : d \in FineTemps}
    ELSE {Append(s, FineRow(s[n - 1].sort_time.wall + g, d, time_range, n)) :
            s \in FineInputs(n - 1, time_range), g \in FineGaps,
            d \in FineTemps}

FineInit ==
    /\ HandlerIdle
    /\ NoClients
    /\ PageOpened
    /\ in_range = "7d"
    /\ in_rows \in UNION {FineInputs(n, "7d") : n \in 0..MaxLen}
    /\ out_rows = <<>>
    /\ ipc = "input"

SpecInterpFine == FineInit /\ [][InterpNext]_vars

----------------------------------------------------------------------------
(* The gateway's answers *)

\* a timestamp string: with no zone ("naive"), with a trailing Z ("z"), with
\* a numeric offset ("offset"), each of the three with fractional seconds
\* ("frac", "fracz", "fracoffset": a '.' and cs hundredths of a second after
\* the seconds), no date at all ("bad": 'not-a-date'), or not a string
\* ("nonstr")
TsFrac(fmt, wall, off, cs) == [fmt |-> fmt, wall |-> wall, off |-> off, cs |-> cs]

\* a timestamp string on the minute
TsStr(fmt, wall, off) == TsFrac(fmt, wall, off, 0)

\* the "timestamp" member of an entry: {"value": <string>} ("ok"), a bare
\* string ("bare"), an object without "value" ("novalue"), or none ("absent")
TsObj(shape, str) == [shape |-> shape, str |-> str]

\* a JSON value: a number, a string that reads as a number, another string,
\* or null
Num(degrees) == [kind |-> "num", x |-> degrees]
NumStr(degrees) == [kind |-> "numstr", x |-> degrees]
Text == [kind |-> "text", x |-> 0]
Null == [kind |-> "null", x |-> 0]

\* a member of logDatum: {"value": v} ("holder"), v itself ("raw"), or an
\* object without "value" ("empty")
Leaf(tag, shape, val) == [tag |-> tag, shape |-> shape, val |-> val]

\* an item of the body: its key, and its value when that is an object
Entry(ts, ld) == [key |-> "seq", isdict |-> TRUE, ts |-> ts, ld |-> ld]
NonDictEntry == [key |-> "seq", isdict |-> FALSE,
                 ts |-> TsObj("absent", TsStr("bad", 0, 0)), ld |-> <<>>]
MetaItem(key) == [key |-> key, isdict |-> FALSE,
                  ts |-> TsObj("absent", TsStr("bad", 0, 0)), ld |-> <<>>]

\* the body of page number n of the log: "$base", the entries, and "next"
\* unless the page is the last one
Body(entries, has_next) ==
    <<MetaItem("$base")>> \o entries
        \o (IF has_next THEN <<MetaItem("next")>> ELSE <<>>)

HasNext(up, n) == up.chained \/ n < up.pages

----------------------------------------------------------------------------
(* /api/trends: building the query *)

\* request.args.get('range', '1h')
TimeRange(arg) == IF arg = "absent" THEN "1h" ELSE arg

\* a variant whose fallback looks back a day
LookbackDayFallback(time_range) ==
    CASE time_range = "1h"  -> 60
      [] time_range = "4h"  -> 240
      [] time_range = "12h" -> 720
      [] time_range = "7d"  -> 10080
      [] OTHER -> 1440

\* now - start_time, in minutes
Lookback(time_range) ==
    CASE time_range = "1h"  -> 60
      [] time_range = "4h"  -> 240
      [] time_range = "12h" -> 720
      [] time_range = "24h" -> 1440
      [] time_range = "7d"  -> 10080
      [] OTHER -> 60

MaxResults(time_range) ==
    CASE time_range = "1h"  -> 20
      [] time_range = "4h"  -> 60
      [] time_range = "12h" -> 150
      [] time_range = "24h" -> 300
      [] time_range = "7d"  -> 50000
      [] OTHER -> 20

\* isoformat(timespec='seconds') + "Z" of an aware UTC datetime
IsoSecondsZ(t) == [wall |-> t, suffix |-> "+00:00Z"]

\* a variant that sends the time filters for every range
TrendsParamsAlwaysFiltered(time_range, tnow) ==
    [published_ge |-> IsoSecondsZ(tnow - Lookback(time_range)),
     published_le |-> IsoSecondsZ(tnow),
     alt |-> "json", max_results |-> MaxResults(time_range)]

\* params of the GET
TrendsParams(time_range, tnow) ==
    IF time_range = "7d"
    THEN [alt |-> "json", max_results |-> MaxResults(time_range)]
    ELSE [published_ge |-> IsoSecondsZ(tnow - Lookback(time_range)),
          published_le |-> IsoSecondsZ(tnow),
          alt |-> "json", max_results |-> MaxResults(time_range)]

----------------------------------------------------------------------------
(* /api/trends: the 7d look at the data range *)

IsMetaKey(key) == key \in {"$base", "next"}

\* datetime.fromisoformat of the string cut at its first '.': the zone is
\* kept when the string carries one and has no fraction before it
Awareness(str) == IF str.fmt \in {"z", "offset"} THEN "aware" ELSE "naive"

RECURSIVE DataRangeScan(_, _, _)
\* the exception the loop over data.items() ends with, "none" if it ends
\* normally; first is the awareness of first_timestamp, "unset" while None
DataRangeScan(items, i, first) ==
    IF i > Len(items) THEN "none"
    ELSE LET it == items[i] IN
         IF IsMetaKey(it.key) \/ ~it.isdict \/ it.ts.shape = "absent"
            THEN DataRangeScan(items, i + 1, first)
         ELSE IF it.ts.shape = "bare" THEN "TypeError"
         ELSE IF it.ts.shape = "novalue" THEN "KeyError"
         ELSE IF it.ts.str.fmt = "nonstr" THEN "TypeError"
         ELSE IF it.ts.str.fmt = "bad" THEN "ValueError"
         ELSE IF first # "unset" /\ first # Awareness(it.ts.str) THEN "TypeError"
         ELSE DataRangeScan(items, i + 1, Awareness(it.ts.str))

----------------------------------------------------------------------------
(* /api/trends: one entry to one row *)

\* isinstance(w, dict) and 'value' in w
IsHolder(leaf) == leaf.shape = "holder"

\* float(x) succeeds
Floatable(val) == val.kind \in {"num", "numstr"}

RECURSIVE FirstFloatable(_, _)
\* the loop over ld.items(): the first holder whose value float() accepts
FirstFloatable(ld, k) ==
    IF k > Len(ld) THEN Null
    ELSE IF IsHolder(ld[k]) /\ Floatable(ld[k].val) THEN ld[k].val
    ELSE FirstFloatable(ld, k + 1)

\* val after the look at "real-value" and the loop over the other members
ExtractValue(ld) ==
    LET reals == {k \in 1..Len(ld) : ld[k].tag = "real-value"}
        val == IF reals # {} /\ IsHolder(ld[CHOOSE k \in reals : TRUE])
               THEN ld[CHOOSE k \in reals : TRUE].val
               ELSE Null
    IN  IF val.kind = "null" THEN FirstFloatable(ld, 1) ELSE val

\* the timestamp string to an aware datetime, or the exception raised
\* a string with a zone is parsed whole, one without is cut at its first '.'
\* and taken as UTC
ParseTimestamp(str) ==
    CASE str.fmt = "nonstr" ->
            [exc |-> "TypeError", dt |-> [wall |-> 0, off |-> 0, cs |-> 0]]
      [] str.fmt = "bad" ->
            [exc |-> "ValueError", dt |-> [wall |-> 0, off |-> 0, cs |-> 0]]
      [] str.fmt = "z" ->
            [exc |-> "none", dt |-> [wall |-> str.wall, off |-> 0, cs |-> 0]]
      [] str.fmt = "fracz" ->
            [exc |-> "none", dt |-> [wall |-> str.wall, off |-> 0, cs |-> str.cs]]
      [] str.fmt = "offset" ->
            [exc |-> "none", dt |-> [wall |-> str.wall, off |-> str.off, cs |-> 0]]
      [] str.fmt = "fracoffset" ->
            [exc |-> "none",
             dt |-> [wall |-> str.wall, off |-> str.off, cs |-> str.cs]]
      [] OTHER ->
            [exc |-> "none", dt |-> [wall |-> str.wall, off |-> 0, cs |-> 0]]

\* a variant that flags the extracted row as interpolated
TrendRowFlagged(timestamp_str, val, timestamp_dt, time_range, src) ==
    [timestamp      |-> timestamp_str,
     temperature    |-> val.x * 1000,
     formatted_time |-> FormatTime(timestamp_dt, time_range),
     sort_time      |-> timestamp_dt,
     interpolated   |-> TRUE,
     src            |-> src]

\* the row built from an entry
TrendRow(timestamp_str, val, timestamp_dt, time_range, src) ==
    [timestamp      |-> timestamp_str,
     temperature    |-> val.x * 1000,
     formatted_time |-> FormatTime(timestamp_dt, time_range),
     sort_time      |-> timestamp_dt,
     interpolated   |-> FALSE,
     src            |-> src]

NoRow ==
    TrendRow(TsStr("bad", 0, 0), Null, [wall |-> 0, off |-> 0, cs |-> 0], "1h", 0)

\* one pass of the loop body: "skip" (continue), "row" (append), or "raise"
ExtractEntry(it, time_range, src) ==
    IF IsMetaKey(it.key) \/ ~it.isdict \/ it.ts.shape = "absent"
        THEN [tag |-> "skip", exc |-> "none", row |-> NoRow]
    ELSE LET val == ExtractValue(it.ld)
             parsed == ParseTimestamp(it.ts.str)
         IN  IF val.kind = "null"
                 THEN [tag |-> "skip", exc |-> "none", row |-> NoRow]
             ELSE IF it.ts.shape = "bare"
                 THEN [tag |-> "raise", exc |-> "TypeError", row |-> NoRow]
             ELSE IF it.ts.shape = "novalue"
                 THEN [tag |-> "raise", exc |-> "KeyError", row |-> NoRow]
             ELSE IF parsed.exc # "none" \/ ~Floatable(val)
                 THEN [tag |-> "skip", exc |-> "none", row |-> NoRow]
             ELSE [tag |-> "row", exc |-> "none",
                   row |-> TrendRow(it.ts.str, val, parsed.dt, time_range, src)]

RECURSIVE ExtractRows(_, _, _)
\* the loop over data.items(): the rows appended, or the exception that ends it
ExtractRows(items, i, time_range) ==
    IF i > Len(items) THEN [exc |-> "none", rows |-> <<>>]
    ELSE LET one == ExtractEntry(items[i], time_range, i) IN
         IF one.tag = "raise" THEN [exc |-> one.exc, rows |-> <<>>]
         ELSE LET rest == ExtractRows(items, i + 1, time_range) IN
              IF rest.exc # "none" THEN rest
              ELSE IF one.tag = "row"
                   THEN [exc |-> "none", rows |-> <<one.row>> \o rest.rows]
                   ELSE rest

----------------------------------------------------------------------------
(* /api/trends: sort, interpolate, downsample, result *)

MaxPoints == 300

RECURSIVE SortFrom(_, _, _)
\* rows.sort(key = sort_time): a stable sort, by insertion
SortFrom(rows, i, sorted) ==
    IF i > Len(rows) THEN sorted
    ELSE LET k == Cardinality({p \in 1..Len(sorted) :
                      Centis(sorted[p].sort_time) <= Centis(rows[i].sort_time)})
         IN  SortFrom(rows, i + 1,
                      SubSeq(sorted, 1, k) \o <<rows[i]>>
                          \o SubSeq(sorted, k + 1, Len(sorted)))

\* a variant that leaves the rows in their order of arrival
SortRowsSkipped(rows) == rows

SortRows(rows) == SortFrom(rows, 1, <<>>)

\* del row['sort_time']
DelSortTime(row) ==
    [timestamp      |-> row.timestamp,
     temperature    |-> row.temperature,
     formatted_time |-> row.formatted_time,
     interpolated   |-> row.interpolated,
     src            |-> row.src]

\* a variant that keeps the last row of each stride instead of the first
EveryNthLast(rows, step) ==
    [k \in 1..((Len(rows) + step - 1) \div step) |->
        rows[IF k * step <= Len(rows) THEN k * step ELSE Len(rows)]]

\* rows[::step]
EveryNth(rows, step) ==
    [k \in 1..((Len(rows) + step - 1) \div step) |-> rows[(k - 1) * step + 1]]

\* a variant that halves whatever the length
DownsampleHalving(rows, time_range) ==
    IF time_range = "7d" /\ Len(rows) > MaxPoints
    THEN EveryNth(rows, 2)
    ELSE rows

\* if time_range == '7d' and len(rows) > 300: rows[::len(rows) // 300]
Downsample(rows, time_range) ==
    IF time_range = "7d" /\ Len(rows) > MaxPoints
    THEN EveryNth(rows, Len(rows) \div MaxPoints)
    ELSE rows

\* a variant that fills the gaps whatever the range
InterpolatedAnyRange(rows, time_range) ==
    IF Len(rows) > 1
    THEN interpolate_gaps(rows, ExpectedIntervalMinutes, time_range)
    ELSE rows

\* if time_range == '7d' and len(rows) > 1: rows = interpolate_gaps(...)
Interpolated(rows, time_range) ==
    IF time_range = "7d" /\ Len(rows) > 1
    THEN interpolate_gaps(rows, ExpectedIntervalMinutes, time_range)
    ELSE rows

\* a variant that counts points also when there are none
ActualRangeAlwaysPoints(rows) ==
    [label |-> "points", n |-> Len(rows)]

\* f"{len(records)} points" if records, else "No data"
ActualRange(rows) ==
    IF Len(rows) > 0 THEN [label |-> "points", n |-> Len(rows)]
    ELSE [label |-> "No data", n |-> 0]

\* the result dict of a request that raised nothing (debug_info left out)
TrendsResult(rows, time_range, tnow) ==
    [records       |-> rows,
     time_range    |-> time_range,
     actual_range  |-> ActualRange(rows),
     start_time    |-> [wall |-> tnow - Lookback(time_range), suffix |-> "+00:00Z"],
     end_time      |-> [wall |-> tnow, suffix |-> "+00:00Z"],
     total_records |-> Len(rows)]

\* a variant in which the exception leaves the handler
TrendsUnhandled(exc) ==
    [kind |-> "unhandled", status |-> 500, body |-> [error |-> exc]]

\* the handler's except clause: error_result (debug_info left out)
TrendsExcept(exc) ==
    [kind |-> "json", status |-> 200,
     body |-> [error         |-> exc,
               records       |-> <<>>,
               total_records |-> 0,
               actual_range  |-> [label |-> "Error", n |-> 0]]]

\* everything after data = r.json(), for a body that is a JSON object
TrendsPipeline(items, time_range, tnow) ==
    LET scan == IF time_range = "7d" THEN DataRangeScan(items, 1, "unset")
                ELSE "none"
        ex == ExtractRows(items, 1, time_range)
        filled == Interpolated(SortRows(ex.rows), time_range)
        rows == Downsample([p \in 1..Len(filled) |-> DelSortTime(filled[p])],
                           time_range)
    IN  IF scan # "none" THEN TrendsExcept(scan)
        ELSE IF ex.exc # "none" THEN TrendsExcept(ex.exc)
        ELSE [kind |-> "json", status |-> 200,
              body |-> TrendsResult(rows, time_range, tnow)]

\* the handler from the answer of requests.get on
\* the handler from the answer of requests.get on: the GET fails
\* ("transport") or runs into its timeout ("timeout"), raise_for_status()
\* raises ("status"), r.json() raises ("badbody"), the body is null, a number
\* or a boolean and len(data) raises ("scalar"), it is an array or a string
\* and data.items() raises ("sized"), or it is an object ("page")
TrendsAfterGet(reply, time_range, tnow) ==
    CASE reply.kind = "transport" -> TrendsExcept("ConnectionError")
      [] reply.kind = "timeout"   -> TrendsExcept("Timeout")
      [] reply.kind = "status"    -> TrendsExcept("HTTPError")
      [] reply.kind = "badbody"   -> TrendsExcept("JSONDecodeError")
      [] reply.kind = "scalar"    -> TrendsExcept("TypeError")
      [] reply.kind = "sized"     -> TrendsExcept("AttributeError")
      [] OTHER -> TrendsPipeline(reply.body, time_range, tnow)

----------------------------------------------------------------------------
(* /api/trend of the configurable dashboard: one entry to one point *)

\* the value loop over 'real-value', 'unsigned-value', 'signed-value':
\* "value" with the float, "none" when no member gives one, "raise" when
\* float() refuses the held value
RECURSIVE CfgValueFrom(_, _)
CfgValueFrom(ld, types) ==
    IF types = <<>> THEN [tag |-> "none", val |-> Null]
    ELSE LET found == {k \in 1..Len(ld) : ld[k].tag = Head(types)} IN
         IF found = {} THEN CfgValueFrom(ld, Tail(types))
         ELSE LET leaf == ld[CHOOSE k \in found : TRUE] IN
              IF leaf.shape = "holder"
                 THEN IF Floatable(leaf.val)
                      THEN [tag |-> "value", val |-> leaf.val]
                      ELSE [tag |-> "raise", val |-> Null]
              ELSE IF leaf.shape = "raw" /\ leaf.val.kind = "num"
                 THEN [tag |-> "value", val |-> leaf.val]
              ELSE CfgValueFrom(ld, Tail(types))

CfgValue(ld) ==
    CfgValueFrom(ld, <<"real-value", "unsigned-value", "signed-value">>)

\* the timestamp string of an entry, "none" when there is none
CfgHasTimestamp(ts) == ts.shape \in {"ok", "bare"}

\* datetime.strptime(s.split('.')[0], '%Y-%m-%dT%H:%M:%S') succeeds: the
\* cut at the first '.' takes a zone that follows the fraction away with it
CfgParses(str) == str.fmt \in {"naive", "frac", "fracz", "fracoffset"}

CfgPoint(it, src) ==
    [timestamp |-> TsStr("naive", it.ts.str.wall, 0),
     value     |-> CfgValue(it.ld).val.x * 1000,
     sequence  |-> src]

\* whether the entry at position src of the body yields a point
CfgYields(it) ==
    /\ it.key = "seq"
    /\ it.isdict
    /\ CfgHasTimestamp(it.ts)
    /\ CfgValue(it.ld).tag = "value"
    /\ CfgParses(it.ts.str)

RECURSIVE CfgPoints(_, _)
CfgPoints(items, i) ==
    IF i > Len(items) THEN <<>>
    ELSE (IF CfgYields(items[i]) THEN <<CfgPoint(items[i], i)>> ELSE <<>>)
         \o CfgPoints(items, i + 1)

RECURSIVE CfgSortFrom(_, _, _)
\* trend_data.sort(key = timestamp): stable, by the ISO string
CfgSortFrom(points, i, sorted) ==
    IF i > Len(points) THEN sorted
    ELSE LET k == Cardinality({p \in 1..Len(sorted) :
                      sorted[p].timestamp.wall <= points[i].timestamp.wall})
         IN  CfgSortFrom(points, i + 1,
                         SubSeq(sorted, 1, k) \o <<points[i]>>
                             \o SubSeq(sorted, k + 1, Len(sorted)))

CfgSort(points) == CfgSortFrom(points, 1, <<>>)

\* jsonify({'error': ...}), 500
CfgError(message) ==
    [kind |-> "json", status |-> 500, body |-> [error |-> message]]

\* the handler from an OK answer on
CfgAfterOk(reply) ==
    IF reply.kind = "badbody" THEN CfgError("JSONDecodeError")
    ELSE LET points == IF reply.kind = "page"
                       THEN CfgSort(CfgPoints(reply.body, 1)) ELSE <<>>
         IN  IF points = <<>> THEN CfgError("No valid data points found in trend log")
             ELSE [kind |-> "json", status |-> 200,
                   body |-> [trend_data   |-> points,
                             total_points |-> Len(points),
                             date_range   |->
                                [start |-> points[1].timestamp,
                                 end   |-> points[Len(points)].timestamp]]]

\* the handler after the answer to the existence check
CfgAfterCheck(reply) ==
    CASE reply.kind = "transport" -> CfgError("ConnectionError")
      [] reply.kind = "timeout"   -> CfgError("Timeout")
      [] reply.kind = "badbody"   -> CfgError("JSONDecodeError")
      [] reply.kind = "status"    -> CfgError("Trend log TL27 does not exist")
      [] OTHER -> CfgError("Trend log exists but log-buffer access failed")

\* a variant that tries the unfiltered query before the date-range query
CfgCallUnfilteredFirst(n) ==
    CASE n = 1 -> [url |-> "log-buffer", query |-> "alt=json", timeout |-> 30]
      [] n = 2 -> [url |-> "log-buffer", query |-> "published-ge&published-le&alt=json", timeout |-> 30]
      [] n = 3 -> [url |-> "log-buffer", query |-> "max-results=100&alt=json", timeout |-> 30]
      [] OTHER -> [url |-> "trend-log", query |-> "alt=json", timeout |-> 10]

\* a variant that sends the first query again at every attempt
CfgCallSameQuery(n) ==
    [url |-> "log-buffer", query |-> "published-ge&published-le&alt=json", timeout |-> 30]

\* the three log-buffer queries, in the order they are tried, and the check
CfgCall(n) ==
    CASE n = 1 -> [url |-> "log-buffer", query |-> "published-ge&published-le&alt=json", timeout |-> 30]
      [] n = 2 -> [url |-> "log-buffer", query |-> "alt=json", timeout |-> 30]
      [] n = 3 -> [url |-> "log-buffer", query |-> "max-results=100&alt=json", timeout |-> 30]
      [] OTHER -> [url |-> "trend-log", query |-> "alt=json", timeout |-> 10]

----------------------------------------------------------------------------
(* The requests and answers explored *)

MaxRecs == 2
MaxRun == 14

RangeArgs == {"1h", "4h", "12h", "24h", "7d", "2d", "absent"}
Nows == {20000}
Upstreams == {[pages |-> 1, chained |-> FALSE],
              [pages |-> 3, chained |-> FALSE],
              [pages |-> 60, chained |-> TRUE]}

RealValue(degrees) == <<Leaf("real-value", "holder", Num(degrees))>>

GoodEntry(fmt, wall, off, degrees) ==
    Entry(TsObj("ok", TsStr(fmt, wall, off)), RealValue(degrees))

\* an entry whose timestamp has cs hundredths of a second after the seconds
FracEntry(fmt, wall, off, cs, degrees) ==
    Entry(TsObj("ok", TsFrac(fmt, wall, off, cs)), RealValue(degrees))

EntryChoices ==
    { GoodEntry("naive", 100, 0, 70),
      GoodEntry("naive", 120, 0, 80),
      FracEntry("frac", 100, 0, 67, 71),
      GoodEntry("z", 110, 0, 71),
      FracEntry("fracz", 110, 0, 67, 70),
      GoodEntry("offset", 170, 60, 70),
      FracEntry("fracoffset", 190, 60, 67, 80),
      GoodEntry("bad", 0, 0, 70),
      Entry(TsObj("novalue", TsStr("bad", 0, 0)), RealValue(70)),
      Entry(TsObj("absent", TsStr("bad", 0, 0)), RealValue(70)),
      Entry(TsObj("ok", TsStr("naive", 105, 0)),
            <<Leaf("log-status", "holder", Text)>>),
      Entry(TsObj("ok", TsStr("naive", 100, 0)),
            <<Leaf("real-value", "holder", Text),
              Leaf("unsigned-value", "holder", Num(71))>>),
      Entry(TsObj("ok", TsStr("naive", 100, 0)),
            <<Leaf("real-value", "holder", Null),
              Leaf("unsigned-value", "holder", Num(71))>>),
      Entry(TsObj("ok", TsStr("naive", 100, 0)),
            <<Leaf("log-status", "holder", Text),
              Leaf("signed-value", "holder", Num(80))>>),
      Entry(TsObj("ok", TsStr("naive", 100, 0)),
            <<Leaf("real-value", "raw", Num(70))>>),
      Entry(TsObj("ok", TsStr("naive", 100, 0)),
            <<Leaf("real-value", "raw", NumStr(70))>>),
      Entry(TsObj("ok", TsStr("naive", 100, 0)),
            <<Leaf("real-value", "raw", NumStr(70)),
              Leaf("unsigned-value", "holder", NumStr(71))>>),
      NonDictEntry }

RECURSIVE EntrySeqs(_)
EntrySeqs(n) ==
    IF n = 0 THEN {<<>>}
    ELSE {Append(s, e) : s \in EntrySeqs(n - 1), e \in EntryChoices}

\* a long log: n entries, one every `every` minutes
Run(n, every) ==
    [k \in 1..n |-> GoodEntry("naive", 100 + (k - 1) * every, 0,
                              IF k % 2 = 0 THEN 70 ELSE 80)]

\* ten entries, one of them with an unparseable timestamp
NineAndOneBad ==
    SubSeq(Run(9, 5), 1, 4) \o <<GoodEntry("bad", 0, 0, 70)>>
        \o SubSeq(Run(9, 5), 5, 9)

\* the entries of a page in the opposite order of arrival
Backwards(entries) ==
    [k \in 1..Len(entries) |-> entries[Len(entries) + 1 - k]]

Pages ==
    UNION {EntrySeqs(n) : n \in 0..MaxRecs}
        \cup {Run(MaxRun, 240), Backwards(Run(MaxRun, 240)), Run(MaxRun, 5),
              NineAndOneBad}

FailedReplies ==
    {[kind |-> k, body |-> <<>>] :
        k \in {"transport", "timeout", "status", "badbody", "scalar", "sized"}}

PageReplies(has_next) ==
    {[kind |-> "page", body |-> Body(entries, has_next)] : entries \in Pages}

----------------------------------------------------------------------------
(* /api/trends as a state machine: the GET is sent, the GET is answered *)

TrendsCall(time_range, t) ==
    [url |-> "log-buffer", params |-> TrendsParams(time_range, t), timeout |-> 30]

TrendsRequest ==
    /\ pc = "idle"
    /\ \E arg \in RangeArgs, t \in Nows, up \in Upstreams :
          /\ range_arg' = arg
          /\ now' = t
          /\ upstream' = up
          /\ calls' = <<TrendsCall(TimeRange(arg), t)>>
    /\ endpoint' = "/api/trends"
    /\ pc' = "get"
    /\ UNCHANGED <<replies, response>>
    /\ UNCHANGED <<ivars, rvars, jvars>>

TrendsReply ==
    /\ pc = "get"
    /\ endpoint = "/api/trends"
    /\ \E reply \in FailedReplies
                        \cup PageReplies(HasNext(upstream, Len(calls))) :
          /\ replies' = Append(replies, reply)
          /\ response' = TrendsAfterGet(reply, TimeRange(range_arg), now)
    /\ pc' = "done"
    /\ UNCHANGED <<endpoint, range_arg, now, upstream, calls>>
    /\ UNCHANGED <<ivars, rvars, jvars>>

----------------------------------------------------------------------------
(* /api/trend as a state machine *)

CfgRequest ==
    /\ pc = "idle"
    /\ \E t \in Nows, up \in Upstreams :
          /\ now' = t
          /\ upstream' = up
    /\ endpoint' = "/api/trend"
    /\ calls' = <<CfgCall(1)>>
    /\ pc' = "get"
    /\ UNCHANGED <<range_arg, replies, response>>
    /\ UNCHANGED <<ivars, rvars, jvars>>

\* a log-buffer GET is answered
CfgReply ==
    /\ pc = "get"
    /\ endpoint = "/api/trend"
    /\ \E reply \in FailedReplies \cup PageReplies(HasNext(upstream, 1)) :
          /\ replies' = Append(replies, reply)
          /\ IF reply.kind \in {"transport", "timeout"}
             THEN /\ response' = CfgError(IF reply.kind = "timeout"
                                          THEN "Timeout" ELSE "ConnectionError")
                  /\ pc' = "done"
                  /\ calls' = calls
             ELSE IF reply.kind = "status"
             THEN /\ response' = response
                  /\ calls' = Append(calls, CfgCall(Len(calls) + 1))
                  /\ pc' = IF Len(calls) < 3 THEN "get" ELSE "check"
             ELSE /\ response' = CfgAfterOk(reply)
                  /\ pc' = "done"
                  /\ calls' = calls
    /\ UNCHANGED <<endpoint, range_arg, now, upstream>>
    /\ UNCHANGED <<ivars, rvars, jvars>>

\* the existence check is answered
CfgCheckReply ==
    /\ pc = "check"
    /\ endpoint = "/api/trend"
    /\ \E reply \in FailedReplies \cup {[kind |-> "object", body |-> <<>>]} :
          /\ replies' = Append(replies, reply)
          /\ response' = CfgAfterCheck(reply)
    /\ pc' = "done"
    /\ UNCHANGED <<endpoint, range_arg, now, upstream, calls>>
    /\ UNCHANGED <<ivars, rvars, jvars>>

Init ==
    /\ HandlerIdle
    /\ NoClients
    /\ PageOpened
    /\ in_rows = <<>>
    /\ in_range = "7d"
    /\ out_rows = <<>>
    /\ ipc = "input"

Next ==
    \/ TrendsRequest
    \/ TrendsReply
    \/ CfgRequest
    \/ CfgReply
    \/ CfgCheckReply

Spec == Init /\ [][Next]_vars

----------------------------------------------------------------------------
(* Two /api/trends requests served at once.  Flask runs get_trend_data once
   per request; everything the function assigns is a local of that call, and
   the module-level names it reads (SERVER, SITE, DEVICE, auth_header,
   TEMP_TREND_LOG_INSTANCE) are assigned once at import. *)

PairRanges == {"1h", "7d", "2d"}
PairNows == {20000, 20060}

PairReplies ==
    FailedReplies
        \cup {[kind |-> "page", body |-> Body(entries, FALSE)] :
                entries \in {<<>>, Run(1, 15), Run(2, 15)}}

\* a variant in which time_range is a module-level name, so that a request
\* reads what the other request stored there
OtherRange(rs, c) ==
    IF \E d \in Clients \ {c} : rs[d].pc # "idle"
    THEN rs[CHOOSE d \in Clients \ {c} : rs[d].pc # "idle"].range_arg
    ELSE rs[c].range_arg

\* time_range as the handler of request c reads it: its own local
OwnRange(rs, c) == rs[c].range_arg

\* request c comes in: the handler runs up to its GET
PairRequest(c) ==
    /\ reqs[c].pc = "idle"
    /\ \E arg \in PairRanges, t \in PairNows :
          reqs' = [reqs EXCEPT ![c] =
                     [@ EXCEPT !.pc = "get",
                               !.range_arg = arg,
                               !.now = t,
                               !.calls = <<TrendsCall(TimeRange(arg), t)>>]]
    /\ UNCHANGED <<ivars, hvars, jvars>>

\* the GET of request c is answered: the handler runs to its return
PairReply(c) ==
    /\ reqs[c].pc = "get"
    /\ \E reply \in PairReplies :
          reqs' = [reqs EXCEPT ![c] =
                     [@ EXCEPT !.pc = "done",
                               !.replies = <<reply>>,
                               !.response =
                                   TrendsAfterGet(reply,
                                                  TimeRange(OwnRange(reqs, c)),
                                                  reqs[c].now),
                               !.met = {d \in Clients \ {c} :
                                           reqs[d].pc = "get"}]]
    /\ UNCHANGED <<ivars, hvars, jvars>>

PairInit ==
    /\ HandlerIdle
    /\ NoClients
    /\ PageOpened
    /\ in_rows = <<>>
    /\ in_range = "7d"
    /\ out_rows = <<>>
    /\ ipc = "input"

PairNext == \E c \in Clients : PairRequest(c) \/ PairReply(c)

SpecPair == PairInit /\ [][PairNext]_vars

----------------------------------------------------------------------------
(* The dashboard page: loadTrendData runs up to the await of its fetch,
   from there to the await of response.json(), and from there to its end.
   The buttons work before window.onload has made the chart; any number of
   calls may be waiting, and their responses arrive in any order *)

MaxLoads == 3

\* the range buttons of the page
Buttons == {"1h", "4h", "12h", "24h", "7d"}

\* what the gateway's log shows in the window of a range: more entries for a
\* longer window, and for 7d two entries with a gap between them
PageFor(time_range) ==
    CASE time_range = "1h"  -> Run(1, 5)
      [] time_range = "4h"  -> Run(2, 5)
      [] time_range = "12h" -> Run(3, 5)
      [] time_range = "24h" -> Run(4, 5)
      [] OTHER              -> Run(2, 15)

\* what response.json() can give for /api/trends?range=...: a result with
\* records, a result without, the error result, or a rejection
PageAnswers(time_range) ==
    {TrendsAfterGet(reply, time_range, 20000) :
        reply \in {[kind |-> "page", body |-> Body(PageFor(time_range), FALSE)],
                   [kind |-> "page", body |-> Body(<<>>, FALSE)],
                   [kind |-> "status", body |-> <<>>]}}
        \cup {[kind |-> "rejected"]}

\* new Chart(...): no labels, one dataset without data
NewChart == [made |-> TRUE, labels |-> <<>>, datasets |-> <<(<<>>)>>]

\* labels.push(record.formatted_time)
Labels(records) == [p \in 1..Len(records) |-> records[p].formatted_time]

\* actualTemperatures: null for an interpolated record
ActualTemperatures(records) ==
    [p \in 1..Len(records) |->
        IF records[p].interpolated THEN "null" ELSE records[p].temperature]

\* interpolatedTemperatures: null for a real record
InterpolatedTemperatures(records) ==
    [p \in 1..Len(records) |->
        IF records[p].interpolated THEN records[p].temperature ELSE "null"]

\* updateChart(trendData), for a chart that was made
UpdateChart(ch, trendData) ==
    IF trendData.records = <<>>
    THEN [ch EXCEPT !.labels = <<>>, !.datasets[1] = <<>>]
    ELSE [made     |-> TRUE,
          labels   |-> Labels(trendData.records),
          datasets |->
             IF \E p \in 1..Len(trendData.records) :
                   trendData.records[p].interpolated
             THEN <<ActualTemperatures(trendData.records),
                    InterpolatedTemperatures(trendData.records)>>
             ELSE <<ActualTemperatures(trendData.records)>>]

\* loadTrendData(timeRange) up to the await of its fetch
LoadStart(timeRange) ==
    /\ loads < MaxLoads
    /\ chartStatus' = "loading"
    /\ activeBtn' = IF timeRange \in Buttons THEN timeRange ELSE "none"
    /\ currentTimeRange' = timeRange
    /\ pending' = pending \cup {[id |-> loads + 1, range |-> timeRange]}
    /\ reading' = reading
    /\ loads' = loads + 1

\* window.onload: initChart(), then loadTrendData('1h')
PageReady ==
    /\ ~chart.made
    /\ chart' = NewChart
    /\ LoadStart("1h")
    /\ UNCHANGED <<ivars, hvars, rvars>>

\* a click on a range button
SelectRange ==
    /\ \E timeRange \in Buttons : LoadStart(timeRange)
    /\ chart' = chart
    /\ UNCHANGED <<ivars, hvars, rvars>>

\* refreshChart(): loadTrendData(currentTimeRange)
RefreshChart ==
    /\ LoadStart(currentTimeRange)
    /\ chart' = chart
    /\ UNCHANGED <<ivars, hvars, rvars>>

\* the fetch of one of the calls settles: with a response, and the call goes
\* on to await response.json(); or with a rejection, and the catch block runs
FetchSettles ==
    /\ \E f \in pending :
          /\ pending' = pending \ {f}
          /\ \/ /\ reading' = reading \cup {f}
                /\ chartStatus' = chartStatus
             \/ /\ reading' = reading
                /\ chartStatus' = "error"
    /\ UNCHANGED <<currentTimeRange, activeBtn, chart, loads>>
    /\ UNCHANGED <<ivars, hvars, rvars>>

\* response.json() of one of the calls settles: loadTrendData from there to
\* its end.  updateChart throws on chart.data while chart is undefined, and
\* the catch block runs as it does for a rejection
TrendsArrive ==
    /\ \E f \in reading :
          /\ reading' = reading \ {f}
          /\ \E data \in PageAnswers(f.range) :
                IF data.kind = "rejected" \/ "error" \in DOMAIN data.body
                   \/ ~chart.made
                THEN /\ chartStatus' = "error"
                     /\ chart' = chart
                ELSE /\ chart' = UpdateChart(chart, data.body)
                     /\ chartStatus' = "last-updated"
    /\ UNCHANGED <<currentTimeRange, activeBtn, pending, loads>>
    /\ UNCHANGED <<ivars, hvars, rvars>>

PageInit ==
    /\ HandlerIdle
    /\ NoClients
    /\ PageOpened
    /\ in_rows = <<>>
    /\ in_range = "7d"
    /\ out_rows = <<>>
    /\ ipc = "input"

PageNext ==
    \/ PageReady
    \/ SelectRange
    \/ RefreshChart
    \/ FetchSettles
    \/ TrendsArrive

SpecPage == PageInit /\ [][PageNext]_vars

----------------------------------------------------------------------------
(* The downsampling step of get_trend_data, applied to rows of every length
   around the display count *)

\* 5-minute samples of seven days
SamplesPerWeek == 7 * 24 * 12

DownLens ==
    {0, 1, 2, MaxPoints - 1, MaxPoints, MaxPoints + 1, MaxPoints + 150,
     2 * MaxPoints - 1, 2 * MaxPoints, 2 * MaxPoints + 1, 3 * MaxPoints - 1,
     3 * MaxPoints, SamplesPerWeek}

\* n gap-free rows 5 minutes apart, as they reach the downsampling step
GapFreeRows(n, time_range) ==
    [k \in 1..n |->
        DelSortTime(RealRow(ExpectedIntervalMinutes * (k - 1),
                            IF k % 2 = 0 THEN 71 ELSE 80, time_range, k))]

DownInit ==
    /\ HandlerIdle
    /\ NoClients
    /\ PageOpened
    /\ in_range \in RangeArgs \ {"absent"}
    /\ \E n \in DownLens : in_rows = GapFreeRows(n, in_range)
    /\ out_rows = <<>>
    /\ ipc = "input"

\* the step is applied
Decimate ==
    /\ ipc = "input"
    /\ out_rows' = Downsample(in_rows, in_range)
    /\ ipc' = "down"
    /\ UNCHANGED <<in_rows, in_range>>
    /\ UNCHANGED <<hvars, rvars, jvars>>

\* the step is applied to its own output
DecimateAgain ==
    /\ ipc = "down"
    /\ in_rows' = out_rows
    /\ out_rows' = Downsample(out_rows, in_range)
    /\ ipc' = "again"
    /\ UNCHANGED in_range
    /\ UNCHANGED <<hvars, rvars, jvars>>

DownNext == Decimate \/ DecimateAgain

SpecDown == DownInit /\ [][DownNext]_vars

----------------------------------------------------------------------------
(* Reading the result of interpolate_gaps *)

IsSynth(row) == row.src = 0

\* position in out_rows of the input row number i
PosOf(i) == CHOOSE p \in 1..Len(out_rows) : out_rows[p].src = i

\* the rows of out_rows between input rows i and i + 1
Between(i) == SubSeq(out_rows, PosOf(i) + 1, PosOf(i + 1) - 1)

InputPairs == 1..(Len(in_rows) - 1)

GapOf(i) == Instant(in_rows[i + 1].sort_time) - Instant(in_rows[i].sort_time)

\* the input rows survive, in order, and every other row lies in a gap
InputKept ==
    /\ SelectSeq(out_rows, LAMBDA r : ~IsSynth(r)) = in_rows
    /\ \A p \in 1..Len(out_rows) :
          IsSynth(out_rows[p]) =>
             \E i \in InputPairs :
                /\ PosOf(i) < p /\ p < PosOf(i + 1)
                /\ Instant(in_rows[i].sort_time) < Instant(out_rows[p].sort_time)
                /\ Instant(out_rows[p].sort_time) < Instant(in_rows[i + 1].sort_time)

SortedByTime(rows) ==
    \A p \in 1..(Len(rows) - 1) :
        Instant(rows[p].sort_time) <= Instant(rows[p + 1].sort_time)

\* C5: for a time-sorted input, the output of interpolate_gaps is sorted by
\* time, holds every input row unchanged and in its order, and every inserted
\* row lies strictly between two adjacent input rows.
C5_InputPreserved ==
    ipc = "done" => SortedByTime(out_rows) /\ InputKept

C5_Witness ==
    /\ ipc = "done"
    /\ Len(in_rows) = 3
    /\ \E p \in 1..Len(out_rows) : IsSynth(out_rows[p])
    /\ \E i \in InputPairs : GapOf(i) = 240

\* the gap of pair i is exactly k expected intervals
ExactSteps(i, k) == GapOf(i) = k * ExpectedIntervalMinutes

\* twice the distance, in units of 1/k thousandth, between a returned value and
\* v0 + (v1 - v0) * j / k
TwiceOffLine(val, v0, v1, j, k) ==
    LET d == k * val - (k * v0 + (v1 - v0) * j)
    IN  2 * (IF d < 0 THEN -d ELSE d)

\* the j-th row between pair i stands at t0 + j * interval
AtStep(i, j) ==
    Instant(Between(i)[j].sort_time)
        = Instant(in_rows[i].sort_time) + j * ExpectedIntervalMinutes

\* C6 as stated: k - 1 rows, the j-th at t0 + j * interval with the value
\* v0 + (v1 - v0) * j / k exactly.
C6_ExactValue ==
    ipc = "done" =>
      \A i \in InputPairs : \A k \in 3..MaxGapSamples :
         ExactSteps(i, k) =>
            /\ Len(Between(i)) = k - 1
            /\ \A j \in 1..(k - 1) :
                  /\ AtStep(i, j)
                  /\ TwiceOffLine(Between(i)[j].temperature,
                                  in_rows[i].temperature,
                                  in_rows[i + 1].temperature, j, k) = 0

\* C6 (amended): a gap of exactly k expected intervals, 2 < k <= 48, gets
\* exactly k - 1 rows, the j-th at t0 + j * interval with the value
\* v0 + (v1 - v0) * j / k rounded to 2 decimals (within 0.005 of it); rows at
\* 0, 5, 65 minutes with 80.0, 71.0, 80.0 get 11 rows between 5 and 65, the
\* one at minute 35 with 75.5.
C6_RoundedValue ==
    ipc = "done" =>
      /\ \A i \in InputPairs : \A k \in 3..MaxGapSamples :
           ExactSteps(i, k) =>
              /\ Len(Between(i)) = k - 1
              /\ \A j \in 1..(k - 1) :
                    /\ AtStep(i, j)
                    /\ TwiceOffLine(Between(i)[j].temperature,
                                    in_rows[i].temperature,
                                    in_rows[i + 1].temperature, j, k) <= 10 * k
      /\ (in_rows = <<RealRow(0, 80, "7d", 1), RealRow(5, 71, "7d", 2),
                      RealRow(65, 80, "7d", 3)>>
            => /\ Len(out_rows) = 14
               /\ Len(Between(2)) = 11
               /\ Between(2)[6].sort_time.wall = 35
               /\ Between(2)[6].temperature = 75500)

C6_Witness ==
    /\ ipc = "done"
    /\ in_rows = <<RealRow(0, 80, "7d", 1), RealRow(5, 71, "7d", 2),
                   RealRow(65, 80, "7d", 3)>>
    /\ Len(Between(2)) = 11

\* C7: a pair exactly 2 x expected_interval apart gets no row; a pair more
\* than 2 x expected_interval apart whose step count is within the cap gets
\* at least one.
C7_StrictThreshold ==
    ipc = "done" =>
      \A i \in InputPairs :
         /\ GapOf(i) = 2 * ExpectedIntervalMinutes => Len(Between(i)) = 0
         /\ (GapOf(i) > 2 * ExpectedIntervalMinutes
             /\ GapOf(i) \div ExpectedIntervalMinutes <= MaxGapSamples)
               => Len(Between(i)) >= 1

C7_Witness ==
    /\ ipc = "done"
    /\ \E i \in InputPairs : GapOf(i) = 2 * ExpectedIntervalMinutes
    /\ \E i \in InputPairs :
          GapOf(i) = 2 * ExpectedIntervalMinutes + 1 /\ Len(Between(i)) = 1

\* the number of expected-interval steps it takes to span a gap
StepsToSpan(gap) ==
    (gap + ExpectedIntervalMinutes - 1) \div ExpectedIntervalMinutes

\* C8: a gap that takes more than 48 expected-interval steps to span gets no
\* row at all, and a gap above the threshold that takes at most 48 is filled,
\* whether or not the gap is a multiple of the interval.
C8_CapBySteps ==
    ipc = "done" =>
      \A i \in InputPairs :
         /\ StepsToSpan(GapOf(i)) > MaxGapSamples => Len(Between(i)) = 0
         /\ (GapOf(i) > 2 * ExpectedIntervalMinutes
             /\ StepsToSpan(GapOf(i)) <= MaxGapSamples)
               => Len(Between(i)) >= 1

\* the times of pair i's filled gap, bounds included
GapTimes(i) ==
    <<Instant(in_rows[i].sort_time)>>
      \o [j \in 1..Len(Between(i)) |-> Instant(Between(i)[j].sort_time)]
      \o <<Instant(in_rows[i + 1].sort_time)>>

\* C9: in every filled gap the rows are evenly spaced between the two
\* bounding rows and each value is, to the returned 2 decimals, the linear
\* interpolation in time v0 + (v1 - v0) * (t - t0) / (t1 - t0).
C9_LinearInTime ==
    ipc = "done" =>
      \A i \in InputPairs :
         Len(Between(i)) > 0 =>
            /\ \A p \in 1..(Len(GapTimes(i)) - 1) :
                  GapTimes(i)[p + 1] - GapTimes(i)[p]
                     = GapTimes(i)[2] - GapTimes(i)[1]
            /\ \A j \in 1..Len(Between(i)) :
                  TwiceOffLine(Between(i)[j].temperature,
                               in_rows[i].temperature,
                               in_rows[i + 1].temperature,
                               Instant(Between(i)[j].sort_time)
                                  - Instant(in_rows[i].sort_time),
                               GapOf(i)) <= 10 * GapOf(i)

----------------------------------------------------------------------------
(* Reading a finished request *)

Served(route) == pc = "done" /\ endpoint = route

IsError(resp) == "error" \in DOMAIN resp.body

\* { error, records: [], total_records: 0, actual_range: "Error" }
IsStructuredError(resp) ==
    /\ resp.kind = "json"
    /\ {"error", "records", "total_records", "actual_range"} \subseteq DOMAIN resp.body
    /\ resp.body.records = <<>>
    /\ resp.body.total_records = 0
    /\ resp.body.actual_range.label = "Error"

LastReply == replies[Len(replies)]

\* the answer failed at the network boundary
NetworkFailure(reply) ==
    reply.kind \in {"transport", "timeout", "status", "badbody"}

\* no answer came: the GET raised, for a transport failure or its timeout
NoAnswer(reply) == reply.kind \in {"transport", "timeout"}

\* the answer parsed as JSON, but not as an object
NotAnObject(reply) == reply.kind \in {"scalar", "sized"}

SupportedRanges == {"1h", "4h", "12h", "24h", "7d"}

\* an entry with a numeric leaf: a value-holder whose value is a number or
\* reads as one
HasNumericLeaf(it) ==
    \E k \in 1..Len(it.ld) :
       it.ld[k].shape = "holder" /\ it.ld[k].val.kind \in {"num", "numstr"}

\* an entry with a timestamp that parses and a numeric leaf
WellFormed(it) ==
    /\ it.key = "seq" /\ it.isdict
    /\ it.ts.shape = "ok"
    /\ it.ts.str.fmt \in {"naive", "frac", "z", "fracz", "offset", "fracoffset"}
    /\ HasNumericLeaf(it)

\* an entry like it, but its timestamp string does not parse or its timestamp
\* object is malformed
BadTimestamp(it) ==
    /\ it.key = "seq" /\ it.isdict
    /\ HasNumericLeaf(it)
    /\ \/ it.ts.shape \in {"bare", "novalue"}
       \/ it.ts.shape = "ok" /\ it.ts.str.fmt \in {"bad", "nonstr"}

\* the positions of the body whose entries are returned as records
ReturnedSrc(resp) ==
    {resp.body.records[p].src : p \in 1..Len(resp.body.records)} \ {0}

\* C1: for every supported range, a page whose entries are well-formed but
\* for one with a bad timestamp is answered with a success result that holds
\* every well-formed entry and not the bad one.
C1_OneBadRecordSkipped ==
    (Served("/api/trends") /\ LastReply.kind = "page"
        /\ TimeRange(range_arg) \in SupportedRanges) =>
       LET items == LastReply.body
           seqs == {i \in 1..Len(items) : items[i].key = "seq"}
           bad == {i \in seqs : BadTimestamp(items[i])}
           good == {i \in seqs : WellFormed(items[i])}
       IN  (Cardinality(bad) = 1 /\ seqs = bad \cup good)
              => /\ ~IsError(response)
                 /\ ReturnedSrc(response) = good

\* C2 as stated: every finished request carries a JSON response, and a
\* failure at the network boundary or later gives the structured error result.
C2_StructuredError ==
    pc = "done" =>
       /\ response.kind = "json"
       /\ (NetworkFailure(LastReply) \/ IsError(response))
             => IsStructuredError(response)

\* C2 (amended): every finished request carries a JSON response and no
\* exception leaves the handler.  In /api/trends a failure at the network
\* boundary or in a later stage gives exactly the structured error result,
\* with status 200.  In /api/trend a request whose last answer failed gives
\* status 500 and a body with "error" but none of records, total_records,
\* actual_range; and no request needs more than four GETs.
C2_JsonResponse ==
    /\ Len(calls) <= 4
    /\ pc = "done" =>
         /\ response.kind = "json"
         /\ endpoint = "/api/trends" =>
               /\ Len(calls) = 1
               /\ (NetworkFailure(LastReply) \/ NotAnObject(LastReply))
                     => IsError(response)
               /\ IsError(response)
                     => IsStructuredError(response) /\ response.status = 200
               /\ ~IsError(response)
                     => /\ response.status = 200
                        /\ response.body.total_records = Len(response.body.records)
         /\ endpoint = "/api/trend" =>
               /\ (NetworkFailure(LastReply) \/ NotAnObject(LastReply)
                   \/ Len(calls) = 4)
                     => IsError(response)
               /\ IsError(response)
                     => /\ response.status = 500
                        /\ {"records", "total_records", "actual_range"}
                              \cap DOMAIN response.body = {}
               /\ ~IsError(response)
                     => /\ response.status = 200
                        /\ response.body.total_points = Len(response.body.trend_data)
                        /\ response.body.trend_data # <<>>

C2_Witness ==
    /\ Served("/api/trends")
    /\ LastReply.kind = "status"
    /\ IsStructuredError(response)

\* C3: the fetch follows the continuation reference of each page: a log of 3
\* pages, the last without a reference, takes exactly 3 GETs, and the request
\* ends on a page that carries no reference.
C3_FollowsContinuation ==
    (Served("/api/trends") /\ ~upstream.chained
        /\ \A n \in 1..Len(replies) : replies[n].kind = "page") =>
       /\ Len(calls) = upstream.pages
       /\ \A i \in 1..Len(LastReply.body) : LastReply.body[i].key # "next"

\* C4: no request takes more than 50 GETs; when every page carries a
\* continuation reference the fetch stops after the 50th page and the request
\* still ends in a success result.
C4_StopsAtCap ==
    (Served("/api/trends")
        /\ \A n \in 1..Len(replies) : replies[n].kind = "page") =>
       /\ Len(calls) <= 50
       /\ upstream.chained =>
             /\ Len(calls) = 50
             /\ (\A n \in 1..Len(replies) :
                    \A i \in 1..Len(replies[n].body) :
                       replies[n].body[i].key = "seq"
                          => WellFormed(replies[n].body[i])
                             /\ replies[n].body[i].ts.str.fmt = "naive")
                  => ~IsError(response)

\* C10: in a returned record sequence a record is flagged interpolated
\* exactly when no upstream entry produced it; an unflagged record is the
\* entry of the page at its position, with that entry's timestamp.
C10_FlagIffSynthesized ==
    (Served("/api/trends") /\ ~IsError(response)) =>
       \A p \in 1..Len(response.body.records) :
          LET r == response.body.records[p] IN
          /\ r.interpolated <=> r.src = 0
          /\ ~r.interpolated =>
                /\ r.src \in 1..Len(LastReply.body)
                /\ WellFormed(LastReply.body[r.src])
                /\ r.timestamp = LastReply.body[r.src].ts.str

\* a 7d answer with real and synthesized records that was decimated: two
\* neighbouring synthesized records lie two intervals apart
C10_Witness ==
    /\ Served("/api/trends") /\ ~IsError(response)
    /\ Len(response.body.records) > MaxPoints
    /\ \E p \in 1..(Len(response.body.records) - 1) :
          /\ response.body.records[p].interpolated
          /\ response.body.records[p + 1].interpolated
          /\ response.body.records[p + 1].timestamp.wall
                - response.body.records[p].timestamp.wall
                   = 2 * ExpectedIntervalMinutes
    /\ \E p \in 1..Len(response.body.records) :
          ~response.body.records[p].interpolated

----------------------------------------------------------------------------
(* Reading the result of the downsampling step *)

\* the stride of a sequence of n rows
Stride(n) == n \div MaxPoints

\* C11: the downsampling step (range 7d) returns a sequence of at most 300
\* rows unchanged; a longer one becomes exactly its rows at indices 0, s,
\* 2s, ... with s = len // 300, in their order and unaltered.
C11_UniformStride ==
    (ipc = "down" /\ in_range = "7d") =>
       IF Len(in_rows) <= MaxPoints
       THEN out_rows = in_rows
       ELSE LET s == Stride(Len(in_rows)) IN
            /\ Len(out_rows) = Cardinality({i \in 0..(Len(in_rows) - 1) : i % s = 0})
            /\ \A k \in 1..Len(out_rows) : out_rows[k] = in_rows[(k - 1) * s + 1]

C11_Witness ==
    /\ ipc = "down" /\ in_range = "7d"
    /\ Len(in_rows) = SamplesPerWeek
    /\ Stride(Len(in_rows)) = 6
    /\ Len(out_rows) < Len(in_rows)

\* C12: the downsampled 7d sequence never has more than 300 rows, and 2016
\* gap-free rows 5 minutes apart become exactly 300.
C12_BoundedToDisplayCount ==
    (ipc = "down" /\ in_range = "7d") =>
       /\ Len(out_rows) <= MaxPoints
       /\ Len(in_rows) = SamplesPerWeek => Len(out_rows) = MaxPoints

\* C13: the downsampling step applied to its own output returns it unchanged.
C13_Idempotent ==
    ipc = "again" => out_rows = in_rows

\* a first pass that left more than 300 rows
C13_Witness ==
    /\ ipc = "again" /\ in_range = "7d"
    /\ Len(in_rows) > MaxPoints
    /\ Len(out_rows) = Len(in_rows)

----------------------------------------------------------------------------
(* Reading the order and the number of the returned records *)

\* the instant of a returned record, as the handler reads its timestamp
RecordInstant(r) == Centis(ParseTimestamp(r.timestamp).dt)

NonDecreasing(recs) ==
    \A p \in 1..(Len(recs) - 1) :
       RecordInstant(recs[p]) <= RecordInstant(recs[p + 1])

\* C14: in every success response of either trend endpoint, for every range
\* and every order of arrival, the returned records are in non-decreasing
\* order of their instant, also after interpolation and downsampling.
C14_SortedByInstant ==
    (pc = "done" /\ ~IsError(response)) =>
       /\ endpoint = "/api/trends" => NonDecreasing(response.body.records)
       /\ endpoint = "/api/trend" => NonDecreasing(response.body.trend_data)

\* a 7d page that arrived latest entry first and was gap-filled and decimated
C14_Witness ==
    /\ Served("/api/trends") /\ ~IsError(response)
    /\ TimeRange(range_arg) = "7d"
    /\ Len(LastReply.body) > 3
    /\ LastReply.body[2].ts.str.wall > LastReply.body[3].ts.str.wall
    /\ Len(response.body.records) > MaxPoints
    /\ \E p \in 1..Len(response.body.records) :
          response.body.records[p].interpolated

\* a page too short to be downsampled even when every gap is filled
NoDownsampling ==
    TimeRange(range_arg) # "7d"
        \/ Len(LastReply.body) * MaxGapSamples <= MaxPoints

WellFormedAt(items) == {i \in 1..Len(items) : WellFormed(items[i])}

\* C15: records with equal timestamps are all passed through: when no
\* downsampling applies, a success response holds as many non-interpolated
\* records as the page holds well-formed entries.
C15_DuplicatesPassThrough ==
    (Served("/api/trends") /\ LastReply.kind = "page" /\ ~IsError(response)
        /\ NoDownsampling) =>
       Cardinality({p \in 1..Len(response.body.records) :
                       ~response.body.records[p].interpolated})
          = Cardinality(WellFormedAt(LastReply.body))

----------------------------------------------------------------------------
(* Reading the stages a response went through *)

\* a gap that interpolation fills: > 2 x the interval and at most 48 steps
Fillable(gap) ==
    /\ GapExceedsThreshold(gap, ExpectedIntervalMinutes)
    /\ WithinCap(NumIntervals(gap, ExpectedIntervalMinutes))

\* no fillable gap is left between neighbouring records
GapFilled(recs) ==
    \A p \in 1..(Len(recs) - 1) :
       ~Fillable(RecordInstant(recs[p + 1]) - RecordInstant(recs[p]))

SuccessFromPage ==
    Served("/api/trends") /\ LastReply.kind = "page" /\ ~IsError(response)

\* C16 as stated: for every supported range the returned sequence is sorted,
\* gap-filled (seen before decimation) and brought down to the display bound.
C16_AllStagesEveryRange ==
    (SuccessFromPage /\ TimeRange(range_arg) \in SupportedRanges) =>
       /\ NonDecreasing(response.body.records)
       /\ NoDownsampling => GapFilled(response.body.records)
       /\ Len(response.body.records) <= MaxPoints

\* C16 (amended): every range is sorted.  Only range 7d is gap-filled and
\* then decimated (stride len // 300, which leaves fewer than 600 records);
\* for any other range no record is interpolated and each returned record is
\* an entry of the page, each entry at most once.
C16_StagesOnlyFor7d ==
    SuccessFromPage =>
       LET recs == response.body.records IN
       /\ NonDecreasing(recs)
       /\ TimeRange(range_arg) = "7d" =>
             /\ NoDownsampling => GapFilled(recs)
             /\ Len(recs) < 2 * MaxPoints
       /\ TimeRange(range_arg) # "7d" =>
             /\ \A p \in 1..Len(recs) : ~recs[p].interpolated
             /\ Cardinality(ReturnedSrc(response)) = Len(recs)

\* a 24h answer whose records lie four hours apart, nothing in between
C16_Witness ==
    /\ SuccessFromPage
    /\ TimeRange(range_arg) = "24h"
    /\ Len(response.body.records) = MaxRun
    /\ \A p \in 1..(MaxRun - 1) :
          RecordInstant(response.body.records[p + 1])
             - RecordInstant(response.body.records[p]) = Minutes(240)

----------------------------------------------------------------------------
(* Reading what extraction made of each entry *)

\* an entry of one of the kinds extraction is to skip: a metadata key, a
\* value that is no object, no timestamp, or no numeric leaf (status-only)
SkippableEntry(it) ==
    \/ IsMetaKey(it.key)
    \/ ~it.isdict
    \/ it.ts.shape = "absent"
    \/ ~HasNumericLeaf(it)

\* the positions of the body whose entries became samples
SampledAt ==
    IF IsError(response) THEN {}
    ELSE IF endpoint = "/api/trends" THEN ReturnedSrc(response)
    ELSE {response.body.trend_data[p].sequence :
             p \in 1..Len(response.body.trend_data)}

\* C17: a page made of well-formed records and of entries to skip yields, at
\* either endpoint, exactly the well-formed records as samples.
C17_ExactlyTheWellFormed ==
    (pc = "done" /\ LastReply.kind = "page" /\ NoDownsampling
        /\ \A i \in 1..Len(LastReply.body) :
               WellFormed(LastReply.body[i]) \/ SkippableEntry(LastReply.body[i]))
       => /\ endpoint = "/api/trends" => ~IsError(response)
          /\ SampledAt = WellFormedAt(LastReply.body)

\* the leaves of logDatum that are value-holders with a convertible value
Convertible(ld) ==
    {k \in 1..Len(ld) :
        ld[k].shape = "holder" /\ ld[k].val.kind \in {"num", "numstr"}}

\* the leaf to take: real-value when convertible, else the first convertible
LeafToTake(ld) ==
    LET real == {k \in Convertible(ld) : ld[k].tag = "real-value"}
    IN  IF real # {} THEN CHOOSE k \in real : TRUE
        ELSE CHOOSE k \in Convertible(ld) : \A j \in Convertible(ld) : k <= j

\* C18: an entry with a timestamp that parses yields a sample exactly when
\* some leaf of its logDatum is a convertible value-holder, and the sample's
\* value is that of real-value when convertible, else of the first such leaf.
C18_FirstConvertibleLeaf ==
    (SuccessFromPage /\ NoDownsampling) =>
       \A i \in 1..Len(LastReply.body) :
          LET it == LastReply.body[i] IN
          (it.key = "seq" /\ it.isdict /\ it.ts.shape = "ok"
              /\ it.ts.str.fmt \in {"naive", "frac", "z", "fracz", "offset",
                                    "fracoffset"}) =>
             IF Convertible(it.ld) = {} THEN i \notin ReturnedSrc(response)
             ELSE \E p \in 1..Len(response.body.records) :
                     /\ response.body.records[p].src = i
                     /\ response.body.records[p].temperature
                           = it.ld[LeafToTake(it.ld)].val.x * 1000

----------------------------------------------------------------------------
(* Reading the query that was sent *)

Sent == calls[1].params

Requested == endpoint = "/api/trends" /\ pc \in {"get", "done"}

\* a record that carries a parseable timestamp and a numeric real-value only
PlainRecord(it) ==
    WellFormed(it) /\ Len(it.ld) = 1 /\ it.ld[1].tag = "real-value"

\* what a record shows apart from its display label
Shown(recs) ==
    [p \in 1..Len(recs) |->
        <<recs[p].timestamp, recs[p].temperature, recs[p].interpolated>>]

\* C19: a range outside the supported ones, or none, is no error: the query
\* carries the window of 1h (published-ge one hour before now, published-le
\* now) and max-results 20; the answer is an error exactly when the same
\* answer to a 1h request is, it shows the same records, and a page of
\* well-formed records gives a success result with those records.
C19_FallbackTo1h ==
    (Requested /\ range_arg \notin SupportedRanges) =>
       /\ Sent.max_results = 20
       /\ Sent.published_ge.wall = now - 60
       /\ Sent.published_le.wall = now
       /\ pc = "done" =>
             LET as1h == TrendsAfterGet(LastReply, "1h", now) IN
             /\ IsError(response) <=> IsError(as1h)
             /\ ~IsError(response) =>
                   /\ Shown(response.body.records) = Shown(as1h.body.records)
                   /\ response.body.start_time = as1h.body.start_time
                   /\ response.body.end_time = as1h.body.end_time
       /\ (pc = "done" /\ LastReply.kind = "page"
              /\ \A i \in 1..Len(LastReply.body) :
                    LastReply.body[i].key = "seq" => PlainRecord(LastReply.body[i]))
             => /\ ~IsError(response)
                /\ response.status = 200
                /\ ReturnedSrc(response) = WellFormedAt(LastReply.body)
                /\ Len(response.body.records)
                      = Cardinality(WellFormedAt(LastReply.body))

\* an unrecognized range answered by a page of records
C19_Witness ==
    /\ Served("/api/trends")
    /\ range_arg = "2d"
    /\ Sent.max_results = 20
    /\ LastReply.kind = "page"
    /\ Len(response.body.records) = MaxRun

\* C20: the query always carries alt=json and max-results; it carries
\* published-ge and published-le exactly when the range is not 7d, then with
\* published-ge = now - lookback(range) and published-le = now.
C20_TimeFiltersUnless7d ==
    Requested =>
       LET time_range == TimeRange(range_arg)
           lookback == CASE time_range = "4h" -> 4 * 60
                         [] time_range = "12h" -> 12 * 60
                         [] time_range = "24h" -> 24 * 60
                         [] OTHER -> 60
       IN  /\ {"alt", "max_results"} \subseteq DOMAIN Sent
           /\ Sent.alt = "json"
           /\ "published_ge" \in DOMAIN Sent <=> time_range # "7d"
           /\ "published_le" \in DOMAIN Sent <=> time_range # "7d"
           /\ time_range # "7d" =>
                 /\ Sent.published_ge.wall = now - lookback
                 /\ Sent.published_le.wall = now

C20_Witness ==
    /\ Requested
    /\ range_arg = "7d"
    /\ DOMAIN Sent = {"alt", "max_results"}

----------------------------------------------------------------------------
(* Claims about the display label *)

\* the strftime pattern the claim names for a range
LabelStyle(time_range) ==
    CASE time_range \in {"1h", "4h"} -> "%H:%M"
      [] time_range \in {"12h", "24h"} -> "%m/%d %H:%M"
      [] time_range = "7d" -> "%m/%d"

\* what a label of that pattern reads off a datetime: the minute of the day,
\* the minute, the day
LabelReading(style, dt) ==
    CASE style = "%H:%M" -> dt.wall % 1440
      [] style = "%m/%d %H:%M" -> dt.wall
      [] style = "%m/%d" -> dt.wall \div 1440

\* C21: in every success response for a supported range, every record, real
\* or interpolated, carries a display label whose pattern is the one of the
\* range (hour:minute for 1h and 4h, month/day hour:minute for 12h and 24h,
\* month/day for 7d) and which reads the record's own timestamp.
C21_LabelByRange ==
    (SuccessFromPage /\ TimeRange(range_arg) \in SupportedRanges) =>
       \A p \in 1..Len(response.body.records) :
          LET r == response.body.records[p]
              style == LabelStyle(TimeRange(range_arg))
          IN  /\ r.formatted_time.style = style
              /\ r.formatted_time.at =
                    LabelReading(style, ParseTimestamp(r.timestamp).dt)

\* a 7d response that holds real and interpolated records
C21_Witness ==
    /\ SuccessFromPage
    /\ TimeRange(range_arg) = "7d"
    /\ \E p, q \in 1..Len(response.body.records) :
          /\ response.body.records[p].interpolated
          /\ ~response.body.records[q].interpolated
          /\ response.body.records[p].formatted_time.style = "%m/%d"
          /\ response.body.records[q].formatted_time.style = "%m/%d"

----------------------------------------------------------------------------
(* Claims about failed fetches *)

\* the fetch failed: network failure, timeout or non-success status
FetchFailed(reply) == reply.kind \in {"transport", "timeout", "status"}

LogBufferCalls == {n \in 1..Len(calls) : calls[n].url = "log-buffer"}

\* C22 as stated: in either dashboard, once a fetch of the log buffer has
\* failed, no further fetch of the log buffer is issued and the request ends as
\* a failure.
C22_NoFurtherFetch ==
    \A n \in 1..Len(replies) :
       (n \in LogBufferCalls /\ FetchFailed(replies[n])) =>
          /\ \A m \in LogBufferCalls : m <= n
          /\ pc = "done" => IsError(response)

\* C22: no query is sent twice.  /api/trends issues one fetch, and a failed
\* one ends the request as a failure.  In /api/trend a network failure or
\* timeout ends the request as a failure with no further fetch; a non-success
\* status on one of the three log-buffer queries is followed by the next call,
\* and the request fails when all three got a non-success status.
C22_NoRepeatedQuery ==
    /\ \A m, n \in 1..Len(calls) : m < n => calls[m] # calls[n]
    /\ endpoint = "/api/trends" =>
          /\ Len(calls) = 1
          /\ (pc = "done" /\ FetchFailed(LastReply)) => IsError(response)
    /\ endpoint = "/api/trend" =>
          \A n \in 1..Len(replies) :
             /\ NoAnswer(replies[n]) =>
                   /\ Len(calls) = n
                   /\ pc = "done" /\ IsError(response)
             /\ (replies[n].kind = "status" /\ n <= 3) =>
                   /\ Len(calls) > n
                   /\ \A m \in 1..n : replies[m].kind = "status"
                   /\ pc = "done" => (IsError(response) <=>
                                        (Len(replies) > 3
                                           \/ IsError(CfgAfterOk(LastReply))
                                           \/ NoAnswer(LastReply)))

\* /api/trend answered with data after its first query got a non-success status
C22_Witness ==
    /\ Served("/api/trend")
    /\ replies[1].kind = "status"
    /\ Len(calls) = 2 /\ calls[2].url = "log-buffer"
    /\ ~IsError(response)

----------------------------------------------------------------------------
(* Claims about requests served at once *)

\* C23: under every interleaving of two /api/trends requests, the response of
\* each is the one its own range argument, its own clock reading and the
\* answer to its own GET give, whatever the other request did meanwhile, and
\* no step of one request changes anything the other holds.
C23_Independent ==
    /\ [](\A c \in Clients :
            reqs[c].pc = "done" =>
               /\ reqs[c].calls = <<TrendsCall(TimeRange(reqs[c].range_arg),
                                              reqs[c].now)>>
               /\ reqs[c].response =
                     TrendsAfterGet(reqs[c].replies[1],
                                    TimeRange(reqs[c].range_arg), reqs[c].now))
    /\ [][\A c, d \in Clients :
            (c # d /\ reqs'[c] # reqs[c]) => reqs'[d] = reqs[d]]_vars

\* two requests in flight together, answered with the same page, of which one
\* asked for 7d and got interpolated records and the other did not
C23_Witness ==
    /\ reqs[1].pc = "done" /\ reqs[2].pc = "done"
    /\ 2 \in reqs[1].met
    /\ reqs[1].range_arg = "7d" /\ reqs[2].range_arg = "1h"
    /\ reqs[1].replies = reqs[2].replies
    /\ ~IsError(reqs[1].response) /\ ~IsError(reqs[2].response)
    /\ Len(reqs[1].response.body.records) > Len(reqs[2].response.body.records)

----------------------------------------------------------------------------
(* Claims about timestamp normalization *)

\* C24: a page whose records carry timestamps with a UTC marker, with a
\* numeric offset, or with neither (with or without fractional seconds) is
\* answered, at either endpoint, with every one of its records: none is
\* dropped for its encoding and /api/trends reports no error.
C24_EitherEncodingAppears ==
    (pc = "done" /\ LastReply.kind = "page" /\ NoDownsampling
        /\ \A i \in 1..Len(LastReply.body) :
               IsMetaKey(LastReply.body[i].key) \/ PlainRecord(LastReply.body[i]))
       => /\ endpoint = "/api/trends" => ~IsError(response)
          /\ SampledAt = WellFormedAt(LastReply.body)

----------------------------------------------------------------------------
(* Claims about the dashboard page *)

\* the chart shows records that /api/trends gives for the range
ChartShows(time_range) ==
    \E data \in PageAnswers(time_range) :
       /\ data.kind = "json" /\ ~IsError(data)
       /\ chart.labels = Labels(data.body.records)
       /\ chart.datasets[1] = ActualTemperatures(data.body.records)

\* C25: once every pending /api/trends response has arrived and the last of
\* them was loaded into the chart, the chart shows the records of the range
\* held in currentTimeRange, which is the one marked active on the buttons.
C25_ChartOfLatestSelection ==
    (chart.made /\ pending = {} /\ reading = {}
        /\ chartStatus = "last-updated") =>
       /\ activeBtn = currentTimeRange
       /\ ChartShows(currentTimeRange)

----------------------------------------------------------------------------
(* Claims about a second application of interpolate_gaps *)

\* C26: after a gap is filled, no two adjacent samples from its first real
\* sample to its second are more than 2 x expected_interval apart, the last
\* inserted sample and the following real one included; and interpolate_gaps
\* applied to its own output returns it unchanged.
C26_Idempotent ==
    /\ ipc = "done" =>
          \A i \in InputPairs :
             Between(i) # <<>> =>
                \A p \in PosOf(i)..(PosOf(i + 1) - 1) :
                   Instant(out_rows[p + 1].sort_time)
                      - Instant(out_rows[p].sort_time)
                         <= 2 * ExpectedIntervalMinutes
    /\ ipc = "again" => out_rows = in_rows

\* a second application to rows whose filled gap is no multiple of the
\* interval: the last inserted sample is more than one interval before the
\* real sample that follows it
C26_Witness ==
    /\ ipc = "again"
    /\ out_rows = in_rows
    /\ \E p \in 1..(Len(in_rows) - 1) :
          /\ IsSynth(in_rows[p]) /\ ~IsSynth(in_rows[p + 1])
          /\ Instant(in_rows[p + 1].sort_time) - Instant(in_rows[p].sort_time)
                > ExpectedIntervalMinutes

----------------------------------------------------------------------------
(* Claims about the range of interpolated values *)

Lower(a, b) == IF a <= b THEN a ELSE b

Higher(a, b) == IF a <= b THEN b ELSE a

\* a temperature rounded to 2 decimals
ToHundredths(v) == 10 * Round2(Float(v))

\* the time of the j-th row of pair i's gap lies strictly between the times
\* of the pair
StrictlyInside(i, j) ==
    /\ Instant(in_rows[i].sort_time) < Instant(Between(i)[j].sort_time)
    /\ Instant(Between(i)[j].sort_time) < Instant(in_rows[i + 1].sort_time)

\* C27 as stated: every interpolated row's temperature, as returned, lies
\* between the temperatures of the two real rows bounding its gap, and its
\* time lies strictly between their times.
C27_WithinBounds ==
    ipc = "done" =>
      \A i \in InputPairs : \A j \in 1..Len(Between(i)) :
         /\ Lower(in_rows[i].temperature, in_rows[i + 1].temperature)
               <= Between(i)[j].temperature
         /\ Between(i)[j].temperature
               <= Higher(in_rows[i].temperature, in_rows[i + 1].temperature)
         /\ StrictlyInside(i, j)

\* C27: every interpolated row's temperature, as returned, lies between the
\* temperatures of the two real rows bounding its gap rounded to 2 decimals
\* each, and its time lies strictly between their times.
C27_WithinRoundedBounds ==
    ipc = "done" =>
      \A i \in InputPairs : \A j \in 1..Len(Between(i)) :
         /\ ToHundredths(Lower(in_rows[i].temperature,
                               in_rows[i + 1].temperature))
               <= Between(i)[j].temperature
         /\ Between(i)[j].temperature
               <= ToHundredths(Higher(in_rows[i].temperature,
                                      in_rows[i + 1].temperature))
         /\ StrictlyInside(i, j)

\* a gap between two readings of 70.004 was filled with rows of 70.0
C27_Witness ==
    /\ ipc = "done"
    /\ \E i \in InputPairs :
          /\ in_rows[i].temperature = 70004
          /\ in_rows[i + 1].temperature = 70004
          /\ Len(Between(i)) > 0
          /\ \A j \in 1..Len(Between(i)) : Between(i)[j].temperature = 70000

----------------------------------------------------------------------------
(* Claims about the summary fields of the response *)

\* C28: in every response of /api/trends, total_records is the length of
\* records; actual_range is "<n> points", n that length, exactly when records
\* is non-empty, "No data" exactly when a success response holds no record,
\* and "Error" exactly when the response carries an error field, in which case
\* records is empty and total_records is 0.
C28_SummaryMatchesRecords ==
    Served("/api/trends") =>
       LET body == response.body IN
       /\ body.total_records = Len(body.records)
       /\ (body.actual_range.label = "points"
              /\ body.actual_range.n = Len(body.records))
             <=> body.records # <<>>
       /\ body.actual_range.label = "No data"
             <=> (~IsError(response) /\ body.records = <<>>)
       /\ body.actual_range.label = "Error" <=> IsError(response)
       /\ IsError(response) =>
             (body.records = <<>> /\ body.total_records = 0)

\* a success response without records, answering a page that held entries
C28_Witness ==
    /\ SuccessFromPage
    /\ Len(LastReply.body) > 1
    /\ response.body.records = <<>>
    /\ response.body.total_records = 0
    /\ response.body.actual_range.label = "No data"

----------------------------------------------------------------------------
(* Claims about an unrecognized range, stage by stage *)

\* C29: a request whose range is none of the supported ones is answered as a
\* 1h request to the same page at the same time would be: the same records in
\* the same order with the same values, display labels and flags, the same
\* summary fields, only the echoed time_range being the one requested.
C29_UnrecognizedAs1h ==
    (SuccessFromPage /\ TimeRange(range_arg) \notin SupportedRanges) =>
       LET as1h == TrendsAfterGet(LastReply, "1h", now) IN
       /\ ~IsError(as1h)
       /\ response.body.records = as1h.body.records
       /\ response.body.total_records = as1h.body.total_records
       /\ response.body.actual_range = as1h.body.actual_range
       /\ response.body.time_range = TimeRange(range_arg)

----------------------------------------------------------------------------
(* Claims about the attempts of /api/trend *)

\* the queries in the order the claim gives them
AttemptOrder ==
    <<"published-ge&published-le&alt=json", "alt=json",
      "max-results=100&alt=json">>

\* C30: /api/trend issues its log-buffer queries in the order date-range,
\* unfiltered, max-results=100; a call is issued only when every earlier one
\* was answered with a non-OK status; the response is built from the first OK
\* answer; at most 3 log-buffer calls are made; the existence check is called
\* only after all 3 got a non-OK status, and then the request ends with an
\* error response.
C30_AttemptsInOrder ==
    endpoint = "/api/trend" =>
       /\ Cardinality(LogBufferCalls) <= 3
       /\ \A n \in LogBufferCalls :
             /\ n <= 3
             /\ calls[n].query = AttemptOrder[n]
       /\ \A n \in 2..Len(calls) :
             \A m \in 1..(n - 1) :
                m <= Len(replies) /\ replies[m].kind = "status"
       /\ \A n \in 1..Len(calls) :
             calls[n].url # "log-buffer" =>
                /\ n = 4
                /\ calls[n].url = "trend-log"
       /\ pc = "done" =>
             /\ Len(replies) = Len(calls)
             /\ Len(calls) <= 3 =>
                   (LastReply.kind # "status"
                      /\ (~NoAnswer(LastReply)
                            => response = CfgAfterOk(LastReply)))
             /\ Len(calls) = 4 =>
                   (IsError(response) /\ response.status = 500)

\* all three queries and the existence check were answered, the check with OK
C30_Witness ==
    /\ Served("/api/trend")
    /\ Len(calls) = 4 /\ Len(replies) = 4
    /\ \A n \in 1..3 : replies[n].kind = "status"
    /\ replies[4].kind = "object"
    /\ IsError(response)

====
